---------------------------- MODULE Spec2Model ----------------------------
(***************************************************************************)
(* BrowserManager (src/src/browser/browserManager.ts): the owner of the    *)
(* browser process and of the session registry `pages`, run by cooperative *)
(* tasks on one event loop.  Every `await` on the browser engine is a      *)
(* suspension point: the call is one step, its resolution (together with   *)
(* the synchronous continuation that follows it) is another step, and      *)
(* other tasks and browser events may run in between.                      *)
(***************************************************************************)
EXTENDS Integers, Sequences, FiniteSets, TLC

\* ------------------------------------------------------------------ bounds
NumTasks == 2       \* cooperative tasks that may have a call in flight
MaxCalls == 2       \* calls of the manager's methods in one behaviour
\* A call launches at most one process, opens at most one tab and draws at
\* most one uuid, so MaxCalls bounds those as well.

Tasks == 1..NumTasks

\* ------------------------------------------------------------- identifiers
\* A session id is a string; here a pair <<kind, n>>.
\* A falsy sessionId: the argument left out, or the empty string.  The code
\* only tests sessionId for truth (lines 116, 119), never which of the two.
Undefined == <<"undefined", 0>>
CallerId  == <<"caller", 1>>             \* a string no uuidv4() call returned
Uuid(k)   == <<"uuid", k>>               \* the k-th value of uuidv4()

NoPage == 0                              \* undefined page
Null   == 0                              \* this.browser = null

VARIABLES
  browser,   \* this.browser: Null or the process the manager refers to
  pages,     \* this.pages: session id -> [page, ord], ord the insertion order
  nOrd,      \* number of keys ever inserted into this.pages
  live,      \* the browser processes that are running
  nProc,     \* number of processes ever launched
  owner,     \* owner[p]: the process that owns tab p (a sequence over tabs)
  open,      \* the tabs that are open
  lsn,       \* lsn[p]: the id captured by tab p's 'close' listener, or Undefined
  nUuid,     \* number of uuidv4() values drawn
  task,      \* task[t]: the call task t has in flight, or its last result
  closeRun,  \* consecutive close() calls completed with no other step between
  nCalls,    \* number of calls made so far
  srv,       \* the server process: its entry point, position and signals
  sm         \* the SessionManager class: its instance, sessions and clock

\* The BrowserManager's part of the state.
managerVars == <<browser, pages, nOrd, live, nProc, owner, open, lsn, nUuid,
                 task, closeRun, nCalls>>

vars == <<browser, pages, nOrd, live, nProc, owner, open, lsn, nUuid, task,
          closeRun, nCalls, srv, sm>>

\* ------------------------------------------------------------ the registry
MapHas(m, id) == id \in DOMAIN m
MapGet(m, id) == IF id \in DOMAIN m THEN m[id].page ELSE NoPage

\* Map.prototype.set: an existing key keeps its place, a new key goes last.
MapSet(m, n, id, p) ==
  IF id \in DOMAIN m
    THEN [m EXCEPT ![id] = [page |-> p, ord |-> m[id].ord]]
    ELSE [k \in DOMAIN m \cup {id} |->
            IF k = id THEN [page |-> p, ord |-> n + 1] ELSE m[k]]

OrdAfterSet(m, n, id) == IF id \in DOMAIN m THEN n ELSE n + 1

\* Map.prototype.delete
MapDelete(m, id) == [k \in DOMAIN m \ {id} |-> m[k]]

EmptyMap == [k \in {} |-> [page |-> NoPage, ord |-> 0]]

\* ------------------------------------------------------------------- tasks
NoRet == [kind |-> "none", page |-> NoPage, id |-> Undefined]
Void  == [kind |-> "void", page |-> NoPage, id |-> Undefined]
Ok(p, id)  == [kind |-> "ok", page |-> p, id |-> id]
Raise(e)   == [kind |-> e, page |-> NoPage, id |-> Undefined]

IdleTask == [pc |-> "idle", op |-> "none", arg |-> Undefined, id |-> Undefined,
             page |-> NoPage, b |-> Null, it |-> 0, ret |-> NoRet,
             hit0 |-> NoPage, made |-> NoPage, peers |-> {}, moved |-> FALSE]

Resting(t)  == task[t].pc \in {"idle", "done"}
InFlight(t) == ~Resting(t)
Quiescent   == \A t \in Tasks : Resting(t)

\* A new call takes the lowest-numbered task that has none in flight.
Free(t) == Resting(t) /\ \A u \in Tasks : u < t => InFlight(u)

\* Task t makes a call.
Call(t) == Free(t) /\ nCalls < MaxCalls /\ nCalls' = nCalls + 1

\* The session ids a caller can pass: none, an unknown string, or a uuid of
\* an earlier getPage call (not one a call still in flight has just drawn:
\* nobody has seen that one yet).
KnownIds ==
  {Uuid(k) : k \in {j \in 1..nUuid :
                      \A t \in Tasks : InFlight(t) => task[t].id # Uuid(j)}}
    \cup {CallerId}
ArgIds   == {Undefined} \cup KnownIds

Truthy(id) == id # Undefined

TabsOf(proc) == {p \in 1..Len(owner) : owner[p] = proc}


\* ------------------------------------------------- bookkeeping of the calls
\* These fields record what a call saw and did; the code never reads them.
\* moved: the registry entry of an in-flight getPage's argument was removed
\* or remapped since the call started.
Moved(tk, m) ==
  [u \in Tasks |->
     IF tk[u].pc \notin {"idle", "done"} /\ tk[u].op = "getPage"
        /\ MapGet(m, tk[u].arg) # MapGet(pages, tk[u].arg)
       THEN [tk[u] EXCEPT !.moved = TRUE]
       ELSE tk[u]]

\* A call returns: its locals are gone, its result and what it saw stay.
Return(tk, r) ==
  [tk EXCEPT !.pc = "done", !.ret = r, !.id = Undefined, !.page = NoPage,
             !.b = Null, !.it = 0]

Finish(t, r) == Return(task[t], r)

\* A step of a close() call that runs alone keeps the run of consecutive
\* close() calls, and its return extends it; every other step ends the run.
RunAfter(t, tk) ==
  IF \E u \in Tasks \ {t} : InFlight(u) THEN 0
  ELSE IF tk.pc = "done" THEN (IF closeRun < 2 THEN closeRun + 1 ELSE 2)
  ELSE closeRun

\* --------------------------------------------------------------- initialize
\* Faulty variant of lines 40-43: the test of this.browser is left out.
InitializeCall_AlwaysLaunches(t) ==
  /\ Call(t)
  /\ task' = [task EXCEPT ![t] =
       [IdleTask EXCEPT !.pc = "launch", !.op = "initialize"]]
  /\ closeRun' = 0
  /\ UNCHANGED <<srv, sm, browser, pages, nOrd, live, nProc, owner, open, lsn, nUuid>>

\* initialize(), lines 39-43: already initialised, warn and return.
\* Otherwise puppeteerExtra.launch() is called and awaited (line 86).
InitializeCall(t) ==
  /\ Call(t)
  /\ task' = [task EXCEPT ![t] =
       IF browser # Null
         THEN [IdleTask EXCEPT !.pc = "done", !.op = "initialize", !.ret = Void]
         ELSE [IdleTask EXCEPT !.pc = "launch", !.op = "initialize"]]
  /\ closeRun' = 0
  /\ UNCHANGED <<srv, sm, browser, pages, nOrd, live, nProc, owner, open, lsn, nUuid>>

\* ------------------------------------------------------------------ getPage
\* Faulty variants of line 116: the caller's id is ignored; uuidv4() repeats
\* itself.
SessionIdFor_AlwaysFresh(arg, n) == Uuid(n + 1)
SessionIdFor_SameUuid(arg, n) == IF Truthy(arg) THEN arg ELSE Uuid(1)

\* line 116: const id = sessionId || uuidv4()
SessionIdFor(arg, n) == IF Truthy(arg) THEN arg ELSE Uuid(n + 1)

\* Faulty variant of line 119: the registry is not consulted.
Hit_Never(m, arg) == FALSE

\* line 119: sessionId && this.pages.has(sessionId)
Hit(m, arg) == Truthy(arg) /\ MapHas(m, arg)

\* lines 111-128 with this.browser = b: the lookup, and either the return of
\* the registered page or the call of b.newPage().
GetPageBody(tk, b) ==
  IF b = Null
    THEN Return(tk, Raise("NotInitialized"))
    ELSE IF Hit(pages, tk.arg)
      THEN Return(tk, Ok(MapGet(pages, tk.arg), SessionIdFor(tk.arg, nUuid)))
      ELSE [tk EXCEPT !.pc = "newPage", !.id = SessionIdFor(tk.arg, nUuid), !.b = b]

\* uuidv4() is evaluated whenever sessionId is falsy and line 116 is reached.
UuidsAfter(arg, b) == IF b # Null /\ ~Truthy(arg) THEN nUuid + 1 ELSE nUuid

\* Faulty variant of lines 107-109: initialize() is not called.
GetPageCall_NoLazyInit(t, arg) ==
  /\ Call(t)
  /\ task' = [task EXCEPT ![t] =
       GetPageBody([IdleTask EXCEPT !.op = "getPage", !.arg = arg,
                                    !.hit0 = MapGet(pages, arg)], browser)]
  /\ nUuid' = UuidsAfter(arg, browser)
  /\ closeRun' = 0
  /\ UNCHANGED <<srv, sm, browser, pages, nOrd, live, nProc, owner, open, lsn>>

\* getPage(sessionId), lines 106-128.  With no browser it awaits initialize().
GetPageCall(t, arg) ==
  /\ Call(t)
  /\ LET others == {u \in Tasks \ {t} : InFlight(u) /\ task[u].op = "getPage"}
         fresh  == [IdleTask EXCEPT !.op = "getPage", !.arg = arg,
                                    !.hit0 = MapGet(pages, arg), !.peers = others]
         mine   == IF browser = Null
                     THEN [fresh EXCEPT !.pc = "launch"]
                     ELSE GetPageBody(fresh, browser)
     IN task' = [u \in Tasks |->
                   IF u = t THEN mine
                   ELSE IF u \in others
                     THEN [task[u] EXCEPT !.peers = @ \cup {t}]
                     ELSE task[u]]
  /\ nUuid' = UuidsAfter(arg, browser)
  /\ closeRun' = 0
  /\ UNCHANGED <<srv, sm, browser, pages, nOrd, live, nProc, owner, open, lsn>>

\* puppeteerExtra.launch() resolves: lines 86-93 (the reference is stored and
\* the 'disconnected' listener installed), then the awaiting getPage, if any,
\* goes on at line 111.
LaunchOk(t) ==
  /\ task[t].pc = "launch"
  /\ LET proc == nProc + 1 IN
       /\ nProc' = proc
       /\ live' = live \cup {proc}
       /\ browser' = proc
       /\ task' = [task EXCEPT ![t] =
            IF task[t].op = "initialize"
              THEN [task[t] EXCEPT !.pc = "done", !.ret = Void]
              ELSE GetPageBody(task[t], proc)]
       /\ nUuid' = IF task[t].op = "getPage" THEN UuidsAfter(task[t].arg, proc) ELSE nUuid
  /\ closeRun' = 0
  /\ UNCHANGED <<srv, sm, pages, nOrd, owner, open, lsn, nCalls>>

\* Faulty variant of lines 95-98: the catch block only logs.
LaunchFail_Swallows(t) ==
  /\ task[t].pc = "launch"
  /\ task' = [task EXCEPT ![t] = Finish(t, Void)]
  /\ closeRun' = 0
  /\ UNCHANGED <<srv, sm, browser, pages, nOrd, live, nProc, owner, open, lsn, nUuid, nCalls>>

\* puppeteerExtra.launch() rejects: lines 95-98 throw, and getPage lets the
\* error through.
LaunchFail(t) ==
  /\ task[t].pc = "launch"
  /\ task' = [task EXCEPT ![t] = Finish(t, Raise("LaunchFailure"))]
  /\ closeRun' = 0
  /\ UNCHANGED <<srv, sm, browser, pages, nOrd, live, nProc, owner, open, lsn, nUuid, nCalls>>

\* browser.newPage() resolves (line 128); page.setViewport is called (131).
\* The awaits of lines 131-143 (setViewport, the two timeouts, setUserAgent)
\* change nothing another task can see: they are one suspension, "configure".
NewPageOk(t) ==
  /\ task[t].pc = "newPage"
  /\ task[t].b \in live
  /\ LET p == Len(owner) + 1 IN
       /\ owner' = Append(owner, task[t].b)
       /\ lsn' = Append(lsn, Undefined)
       /\ open' = open \cup {p}
       /\ task' = [task EXCEPT ![t] =
            [task[t] EXCEPT !.pc = "configure", !.page = p, !.made = p]]
  /\ closeRun' = 0
  /\ UNCHANGED <<srv, sm, browser, pages, nOrd, live, nProc, nUuid, nCalls>>

\* Faulty variant of lines 149-152: the listener only logs.
OnClose_Keeps(m, p) == m

\* Faulty variant of lines 149-152: the listener clears the registry.
OnClose_Clears(m, p) == IF lsn[p] = Undefined THEN m ELSE EmptyMap

\* lines 149-152: the 'close' listener of a page deletes the id it captured.
OnClose(m, p) == IF lsn[p] = Undefined THEN m ELSE MapDelete(m, lsn[p])

\* line 149: page.on('close', ...) captures id.
ListenerId(id) == id

\* setUserAgent resolves: lines 146-155, the page is stored under id, the
\* 'close' listener installed, and {page, sessionId: id} returned.
ConfigureOk(t) ==
  /\ task[t].pc = "configure"
  /\ task[t].page \in open
  /\ pages' = MapSet(pages, nOrd, task[t].id, task[t].page)
  /\ nOrd' = OrdAfterSet(pages, nOrd, task[t].id)
  /\ lsn' = [lsn EXCEPT ![task[t].page] = ListenerId(task[t].id)]
  /\ task' = [Moved(task, pages') EXCEPT ![t] =
       Finish(t, Ok(task[t].page, task[t].id))]
  /\ closeRun' = 0
  /\ UNCHANGED <<srv, sm, browser, live, nProc, owner, open, nUuid, nCalls>>

\* Faulty variant of lines 156-159: a tab whose configuration failed is
\* asked for again.
CreatePageFail_Retries(t) ==
  /\ task[t].pc \in {"newPage", "configure"}
  /\ task' = [task EXCEPT ![t] =
       IF task[t].pc = "configure"
         THEN [task[t] EXCEPT !.pc = "newPage", !.page = NoPage]
         ELSE Finish(t, Raise("PageCreationFailure"))]
  /\ closeRun' = 0
  /\ UNCHANGED <<srv, sm, browser, pages, nOrd, live, nProc, owner, open, lsn, nUuid, nCalls>>

\* Faulty variant of lines 146-159: the id is stored before the tab is ready.
CreatePageFail_Registers(t) ==
  /\ task[t].pc \in {"newPage", "configure"}
  /\ pages' = MapSet(pages, nOrd, task[t].id, task[t].page)
  /\ nOrd' = OrdAfterSet(pages, nOrd, task[t].id)
  /\ task' = [Moved(task, pages') EXCEPT ![t] =
       Finish(t, Raise("PageCreationFailure"))]
  /\ closeRun' = 0
  /\ UNCHANGED <<srv, sm, browser, live, nProc, owner, open, lsn, nUuid, nCalls>>

\* newPage, setViewport or setUserAgent rejects: lines 156-159.
CreatePageFail(t) ==
  /\ task[t].pc \in {"newPage", "configure"}
  /\ task' = [task EXCEPT ![t] = Finish(t, Raise("PageCreationFailure"))]
  /\ closeRun' = 0
  /\ UNCHANGED <<srv, sm, browser, pages, nOrd, live, nProc, owner, open, lsn, nUuid, nCalls>>

\* ---------------------------------------------------------------- closePage
\* closePage(sessionId), lines 166-170: no page under the id, nothing to do;
\* otherwise page.close() is called and awaited.
ClosePageCall(t, s) ==
  /\ Call(t)
  /\ task' = [task EXCEPT ![t] =
       IF MapGet(pages, s) = NoPage
         THEN [IdleTask EXCEPT !.pc = "done", !.op = "closePage", !.arg = s,
                               !.ret = Void]
         ELSE [IdleTask EXCEPT !.pc = "pageClose", !.op = "closePage", !.arg = s,
                               !.page = MapGet(pages, s)]]
  /\ closeRun' = 0
  /\ UNCHANGED <<srv, sm, browser, pages, nOrd, live, nProc, owner, open, lsn, nUuid>>

\* line 171, after page.close() resolved: this.pages.delete(sessionId)
AfterPageClose(m, s) == MapDelete(m, s)

\* page.close() resolves: the tab is closed, its 'close' listener has run,
\* and lines 171-172 follow.
ClosePageOk(t) ==
  /\ task[t].pc = "pageClose"
  /\ task[t].page \in open
  /\ open' = open \ {task[t].page}
  /\ pages' = AfterPageClose(OnClose(pages, task[t].page), task[t].arg)
  /\ task' = [Moved(task, pages') EXCEPT ![t] = Finish(t, Void)]
  /\ closeRun' = 0
  /\ UNCHANGED <<srv, sm, browser, nOrd, live, nProc, owner, lsn, nUuid, nCalls>>

\* lines 173-175, after page.close() rejected: the registry is left as it
\* is (line 171 was skipped), the error is logged and closePage returns.
AfterPageCloseFailed(m, s) == m

\* Faulty variant of lines 173-175: the catch block rethrows.
CatchPageClose_Rethrows(tk) == Return(tk, Raise("PageCloseFailure"))

CatchPageClose(tk) == Return(tk, Void)

\* page.close() rejects (always, when the tab is already gone).
ClosePageFail(t) ==
  /\ task[t].pc = "pageClose"
  /\ pages' = AfterPageCloseFailed(pages, task[t].arg)
  /\ task' = [Moved(task, pages') EXCEPT ![t] = CatchPageClose(task[t])]
  /\ closeRun' = 0
  /\ UNCHANGED <<srv, sm, browser, nOrd, live, nProc, owner, open, lsn, nUuid, nCalls>>

\* -------------------------------------------------------------------- close
\* The entries a Map iterator that last yielded insertion order `it` has
\* still to visit.
Ahead(m, it) == {k \in DOMAIN m : m[k].ord > it}
NextKey(m, it) ==
  CHOOSE k \in Ahead(m, it) : \A j \in Ahead(m, it) : m[k].ord <= m[j].ord

\* lines 186-192 from the loop head, with the registry m and this.browser = b:
\* the next page's close() is awaited, or the loop is over, the registry is
\* cleared and b.close() is called (a TypeError when b is null, caught at 195).
ShutStep(tk, m, b) ==
  IF Ahead(m, tk.it) # {}
    THEN [tk EXCEPT !.pc = "shutPage", !.page = m[NextKey(m, tk.it)].page,
                    !.it = m[NextKey(m, tk.it)].ord]
    ELSE IF b = Null
      THEN Return(tk, Void)
      ELSE [tk EXCEPT !.pc = "browserClose", !.b = b]

\* line 189: this.pages.clear(), once the loop is over.
ShutPages(tk, m) == IF Ahead(m, tk.it) # {} THEN m ELSE EmptyMap

\* close(), lines 182-192: nothing when this.browser is null.
CloseCall(t) ==
  /\ Call(t)
  /\ LET fresh == [IdleTask EXCEPT !.op = "close"]
         mine  == IF browser = Null
                    THEN [fresh EXCEPT !.pc = "done", !.ret = Void]
                    ELSE ShutStep(fresh, pages, browser)
     IN /\ pages' = IF browser = Null THEN pages ELSE ShutPages(fresh, pages)
        /\ task' = [Moved(task, pages') EXCEPT ![t] = mine]
        /\ closeRun' = RunAfter(t, mine)
  /\ UNCHANGED <<srv, sm, browser, nOrd, live, nProc, owner, open, lsn, nUuid>>

\* line 187, page.close() resolves: the tab is closed and its listener has
\* run; the loop goes on.
ShutPageOk(t) ==
  /\ task[t].pc = "shutPage"
  /\ task[t].page \in open
  /\ open' = open \ {task[t].page}
  /\ LET m    == OnClose(pages, task[t].page)
         mine == ShutStep(task[t], m, browser)
     IN /\ pages' = ShutPages(task[t], m)
        /\ task' = [Moved(task, pages') EXCEPT ![t] = mine]
        /\ closeRun' = RunAfter(t, mine)
  /\ UNCHANGED <<srv, sm, browser, nOrd, live, nProc, owner, lsn, nUuid, nCalls>>

\* line 187, page.close() rejects and .catch(() => {}) swallows it.
ShutPageFail(t) ==
  /\ task[t].pc = "shutPage"
  /\ LET mine == ShutStep(task[t], pages, browser)
     IN /\ pages' = ShutPages(task[t], pages)
        /\ task' = [Moved(task, pages') EXCEPT ![t] = mine]
        /\ closeRun' = RunAfter(t, mine)
  /\ UNCHANGED <<srv, sm, browser, nOrd, live, nProc, owner, open, lsn, nUuid, nCalls>>

\* Faulty variant of lines 90-93: the listener only logs.
OnDisconnected_Keeps(b) == b

\* lines 90-93: the 'disconnected' listener, whatever process it came from.
OnDisconnected(b) == Null

\* line 193, after browser.close() resolved: this.browser = null
AfterBrowserClose(b) == Null

\* line 192, browser.close() resolves: the process, if still running, ends
\* with its tabs and emits 'disconnected'; then line 193.
BrowserCloseOk(t) ==
  /\ task[t].pc = "browserClose"
  /\ live' = live \ {task[t].b}
  /\ open' = open \ TabsOf(task[t].b)
  /\ browser' = AfterBrowserClose(
                  IF task[t].b \in live THEN OnDisconnected(browser) ELSE browser)
  /\ task' = [task EXCEPT ![t] = Finish(t, Void)]
  /\ closeRun' = RunAfter(t, task'[t])
  /\ UNCHANGED <<srv, sm, pages, nOrd, nProc, owner, lsn, nUuid, nCalls>>

\* line 192, browser.close() rejects: lines 195-197 log it.
BrowserCloseFail(t) ==
  /\ task[t].pc = "browserClose"
  /\ task' = [task EXCEPT ![t] = Finish(t, Void)]
  /\ closeRun' = RunAfter(t, task'[t])
  /\ UNCHANGED <<srv, sm, browser, pages, nOrd, live, nProc, owner, open, lsn, nUuid, nCalls>>

\* ------------------------------------------------------- the browser's events
\* A tab closes on the browser's side; its 'close' listener runs (149-152).
PageCloseEvent(p) ==
  /\ p \in open
  /\ open' = open \ {p}
  /\ pages' = OnClose(pages, p)
  /\ task' = Moved(task, pages')
  /\ closeRun' = 0
  /\ UNCHANGED <<srv, sm, browser, nOrd, live, nProc, owner, lsn, nUuid, nCalls>>

\* A process ends by itself (crash, kill): its tabs are gone without 'close'
\* events, and its 'disconnected' listener runs (90-93).
Disconnect(proc) ==
  /\ proc \in live
  /\ live' = live \ {proc}
  /\ open' = open \ TabsOf(proc)
  /\ browser' = OnDisconnected(browser)
  /\ closeRun' = 0
  /\ UNCHANGED <<srv, sm, pages, nOrd, nProc, owner, lsn, nUuid, task, nCalls>>

\* -------------------------------------------------------- the server process
\* The two entry points of the server, src/unnamed/part_008 and part_009.
\* Both run main(): construct the manager, await browserManager.initialize(),
\* register the tools, await server.start().  part_009 installs its SIGINT
\* and SIGTERM handlers when the module is loaded (lines 48-56) and they call
\* process.exit(0) at once; part_008 installs them at the end of main()
\* (lines 65-66), after server.start() resolved, and they run shutdown():
\* await browserManager.close(), then process.exit(0).
MaxSignals == 3     \* signals delivered to the process in one behaviour
MaxTools   == 2     \* pages the tools hold open at once

Entries == {"part_008", "part_009"}
Signals == {"SIGINT", "SIGTERM"}

\* pc: "none" (not started), "initialize" (main awaits initialize()), "start"
\* (main awaits server.start()), "serving", "exited".  handlers: the signal
\* handlers are installed.  sigs: the signals received.  up: the manager
\* references a browser.  tabs: the pages the tools opened.  closing:
\* shutdown() calls awaiting close().  closed: close() calls that returned.
\* failed: close() calls that logged a failure.  exit: how the process ended.
NotStarted == [entry |-> "none", pc |-> "none", handlers |-> FALSE,
               sigs |-> <<>>, up |-> FALSE, tabs |-> 0,
               closing |-> 0, closed |-> 0, failed |-> 0, exit |-> "none"]

\* part_009 lines 48-56 run before main() is called at line 59.
HandlersAtLoad(e) == e = "part_009"

\* node <entry>: the module's top level runs up to the first await of main(),
\* browserManager.initialize() (part_008 line 38, part_009 line 30).
Run(e) ==
  /\ srv.pc = "none"
  /\ srv' = [srv EXCEPT !.entry = e, !.pc = "initialize",
                        !.handlers = HandlersAtLoad(e)]
  /\ UNCHANGED <<managerVars, sm>>

\* initialize() resolves: the browser runs, the tools are registered,
\* server.start() is awaited.
MainInitialized ==
  /\ srv.pc = "initialize"
  /\ srv' = [srv EXCEPT !.pc = "start", !.up = TRUE]
  /\ UNCHANGED <<managerVars, sm>>

\* server.start() resolves; part_008 lines 50-66 install the handlers.
MainStarted ==
  /\ srv.pc = "start"
  /\ srv' = [srv EXCEPT !.pc = "serving", !.handlers = TRUE]
  /\ UNCHANGED <<managerVars, sm>>

\* validateConfig, initialize() or server.start() throws: the catch of main()
\* (part_008 lines 80-84, part_009 lines 40-44) calls process.exit(1).
MainFails ==
  /\ srv.pc \in {"initialize", "start"}
  /\ srv' = [srv EXCEPT !.pc = "exited", !.exit = "1"]
  /\ UNCHANGED <<managerVars, sm>>

\* A tool invocation gets a page from the manager, which launches a browser
\* if it references none (browserManager.ts lines 106-160).
ToolOpensPage ==
  /\ srv.pc = "serving" /\ srv.tabs < MaxTools
  /\ srv' = [srv EXCEPT !.up = TRUE, !.tabs = @ + 1]
  /\ UNCHANGED <<managerVars, sm>>

\* The browser process dies: the 'disconnected' listener (browserManager.ts
\* lines 75-83) drops the browser and the pages.
BrowserDies ==
  /\ srv.pc \in {"start", "serving"} /\ srv.up
  /\ srv' = [srv EXCEPT !.up = FALSE, !.tabs = 0]
  /\ UNCHANGED <<managerVars, sm>>

\* The process receives sig.  With no handler installed the default
\* disposition ends it; part_009's handler calls process.exit(0); part_008's
\* handler, shutdown(), calls browserManager.close() and awaits it.
OnSignal(r, sig) ==
  IF ~r.handlers
    THEN [r EXCEPT !.sigs = Append(@, sig), !.pc = "exited", !.exit = "signal"]
    ELSE IF r.entry = "part_009"
      THEN [r EXCEPT !.sigs = Append(@, sig), !.pc = "exited", !.exit = "0"]
      ELSE [r EXCEPT !.sigs = Append(@, sig), !.closing = @ + 1]

Signal(sig) ==
  /\ srv.pc \notin {"none", "exited"}
  /\ Len(srv.sigs) < MaxSignals
  /\ srv' = OnSignal(srv, sig)
  /\ UNCHANGED <<managerVars, sm>>

\* part_008 lines 54-61: close() returned with the pages and the browser
\* closed (browserManager.ts lines 183-194); then process.exit(0).
ShutdownOk ==
  /\ srv.pc # "exited" /\ srv.closing > 0
  /\ srv' = [srv EXCEPT !.closing = @ - 1, !.closed = @ + 1,
                        !.up = FALSE, !.tabs = 0,
                        !.pc = "exited", !.exit = "0"]
  /\ UNCHANGED <<managerVars, sm>>

\* part_008 lines 54-61: browser.close() rejected inside close(), which
\* logged it (browserManager.ts lines 195-197) after clearing the pages and
\* returned; then process.exit(0).
ShutdownFail ==
  /\ srv.pc # "exited" /\ srv.closing > 0 /\ srv.up
  /\ srv' = [srv EXCEPT !.closing = @ - 1, !.closed = @ + 1,
                        !.failed = @ + 1, !.tabs = 0,
                        !.pc = "exited", !.exit = "0"]
  /\ UNCHANGED <<managerVars, sm>>

NextServer ==
  \/ \E e \in Entries : Run(e)
  \/ MainInitialized
  \/ MainStarted
  \/ MainFails
  \/ ToolOpensPage
  \/ BrowserDies
  \/ \E sig \in Signals : Signal(sig)
  \/ ShutdownOk
  \/ ShutdownFail

\* ------------------------------------------------------- the SessionManager
\* SessionManager (src/unnamed/part_010): a singleton with a map of sessions
\* and a periodic cleanup.  All its methods are synchronous: one call is one
\* step.  Time is counted in units of five minutes, the cleanup interval.
MaxSessions == 2    \* createSession calls in one behaviour
MaxTime     == 2    \* the clock runs from 0 to MaxTime

DefaultExpirationTime == 6     \* line 30: 30 * 60 * 1000 ms
CleanupInterval       == 1     \* line 33: 5 * 60 * 1000 ms

SessionIds      == 1..MaxSessions    \* the ids callers pass (uuids)
ExpirationTimes == {1, 2}            \* the values setExpirationTime is given
DataSets        == {{}, {"k"}}       \* the data updateSession is given

\* A session: createdAt, lastActivity and data are SessionData's fields;
\* seen is not in the code: it records when a caller last created, got or
\* updated the session.
NoSessions == [i \in {} |-> [createdAt |-> 0, lastActivity |-> 0, data |-> {},
                             seen |-> 0]]

SmRet(op, id, val) == [op |-> op, id |-> id, val |-> val]

\* instance: the static field (0: undefined).  made: instances constructed.
\* timers: setInterval calls.  due: the earliest time of the timer's next
\* firing.  ret: the last call and what it returned.
NotLoaded == [instance |-> 0, made |-> 0, timers |-> 0, due |-> 0,
              sessions |-> NoSessions, exp |-> 0, nIds |-> 0, clock |-> 0,
              ret |-> SmRet("none", 0, "none")]

\* Faulty variant of line 42: the static field is not consulted.
NeedsInstance_Always(i) == TRUE

\* line 42: !SessionManager.instance
NeedsInstance(i) == i = 0

\* lines 28-36, the constructor, and line 43.
Construct(m) ==
  [m EXCEPT !.instance = m.made + 1, !.made = @ + 1, !.timers = @ + 1,
            !.due = m.clock + CleanupInterval, !.sessions = NoSessions,
            !.exp = DefaultExpirationTime]

\* SessionManager.getInstance(), lines 41-47.
GetInstance ==
  /\ LET m == IF NeedsInstance(sm.instance) THEN Construct(sm) ELSE sm
     IN sm' = [m EXCEPT !.ret = SmRet("getInstance", 0, m.instance)]
  /\ UNCHANGED <<managerVars, srv>>

\* setExpirationTime(timeMs), lines 53-56.
SetExpirationTime(x) ==
  /\ sm.instance # 0
  /\ sm' = [sm EXCEPT !.exp = x, !.ret = SmRet("setExpirationTime", 0, "void")]
  /\ UNCHANGED <<managerVars, srv>>

\* createSession(), lines 63-78: the id is the next uuid.
CreateSession ==
  /\ sm.instance # 0 /\ sm.nIds < MaxSessions
  /\ LET id == sm.nIds + 1 IN
       sm' = [sm EXCEPT
                !.nIds = id,
                !.sessions = [i \in DOMAIN sm.sessions \cup {id} |->
                                IF i = id
                                  THEN [createdAt |-> sm.clock,
                                        lastActivity |-> sm.clock, data |-> {},
                                        seen |-> sm.clock]
                                  ELSE sm.sessions[i]],
                !.ret = SmRet("createSession", id, "id")]
  /\ UNCHANGED <<managerVars, srv>>

\* Faulty variant of lines 90 and 109: lastActivity is left as it is.
Touch_Not(session, now) == session

\* lines 90 and 109: session.lastActivity = new Date()
Touch(session, now) == [session EXCEPT !.lastActivity = now]

\* getSession(sessionId), lines 85-97.
GetSession(id) ==
  /\ sm.instance # 0
  /\ sm' = IF id \in DOMAIN sm.sessions
             THEN [sm EXCEPT !.sessions[id] =
                               [Touch(@, sm.clock) EXCEPT !.seen = sm.clock],
                             !.ret = SmRet("getSession", id, "session")]
             ELSE [sm EXCEPT !.ret = SmRet("getSession", id, "undefined")]
  /\ UNCHANGED <<managerVars, srv>>

\* line 110: session.data = { ...session.data, ...data }
Merge(old, new) == old \cup new

\* updateSession(sessionId, data), lines 105-117.
UpdateSession(id, data) ==
  /\ sm.instance # 0
  /\ sm' = IF id \in DOMAIN sm.sessions
             THEN [sm EXCEPT !.sessions[id] =
                               [Touch(@, sm.clock) EXCEPT !.data = Merge(@, data),
                                                          !.seen = sm.clock],
                             !.ret = SmRet("updateSession", id, "session")]
             ELSE [sm EXCEPT !.ret = SmRet("updateSession", id, "undefined")]
  /\ UNCHANGED <<managerVars, srv>>

\* deleteSession(sessionId), lines 124-134.
DeleteSession(id) ==
  /\ sm.instance # 0
  /\ sm' = [sm EXCEPT
              !.sessions = [i \in DOMAIN sm.sessions \ {id} |-> sm.sessions[i]],
              !.ret = SmRet("deleteSession", id,
                            IF id \in DOMAIN sm.sessions THEN "true" ELSE "false")]
  /\ UNCHANGED <<managerVars, srv>>

\* hasSession(sessionId), lines 141-143.
HasSession(id) ==
  /\ sm.instance # 0
  /\ sm' = [sm EXCEPT !.ret =
              SmRet("hasSession", id,
                    IF id \in DOMAIN sm.sessions THEN "true" ELSE "false")]
  /\ UNCHANGED <<managerVars, srv>>

\* getAllSessions(), lines 149-151.
GetAllSessions ==
  /\ sm.instance # 0
  /\ sm' = [sm EXCEPT !.ret = SmRet("getAllSessions", 0, "array")]
  /\ UNCHANGED <<managerVars, srv>>

\* Faulty variant of line 164: a session expires at the end of its window.
Expired_AtBoundary(session, exp, now) == now >= session.lastActivity + exp

\* lines 161-164: now.getTime() > lastActivityTime + this.expirationTimeMs
Expired(session, exp, now) == now > session.lastActivity + exp

\* cleanupExpiredSessions(), lines 156-173, run by the timer of line 33 once
\* its interval has passed; the next firing is an interval later.  The
\* value returned here is expiredCount, which the code logs.
Cleanup ==
  /\ sm.timers > 0 /\ sm.clock >= sm.due
  /\ LET gone == {i \in DOMAIN sm.sessions :
                    Expired(sm.sessions[i], sm.exp, sm.clock)}
     IN sm' = [sm EXCEPT
                 !.sessions = [i \in DOMAIN sm.sessions \ gone |-> sm.sessions[i]],
                 !.due = sm.clock + CleanupInterval,
                 !.ret = SmRet("cleanup", 0, Cardinality(gone))]
  /\ UNCHANGED <<managerVars, srv>>

\* Five minutes pass.
Tick ==
  /\ sm.clock < MaxTime
  /\ sm' = [sm EXCEPT !.clock = @ + 1, !.ret = SmRet("tick", 0, "none")]
  /\ UNCHANGED <<managerVars, srv>>

NextSessions ==
  \/ GetInstance
  \/ \E x \in ExpirationTimes : SetExpirationTime(x)
  \/ CreateSession
  \/ \E id \in SessionIds : GetSession(id)
  \/ \E id \in SessionIds : \E data \in DataSets : UpdateSession(id, data)
  \/ \E id \in SessionIds : DeleteSession(id)
  \/ \E id \in SessionIds : HasSession(id)
  \/ GetAllSessions
  \/ Cleanup
  \/ Tick

\* ------------------------------------------------------------ specification
\* lines 27-28: browser = null, pages = new Map()
Init ==
  /\ browser = Null
  /\ pages = EmptyMap
  /\ nOrd = 0
  /\ live = {}
  /\ nProc = 0
  /\ owner = <<>>
  /\ open = {}
  /\ lsn = <<>>
  /\ nUuid = 0
  /\ task = [t \in Tasks |-> IdleTask]
  /\ closeRun = 0
  /\ nCalls = 0
  /\ srv = NotStarted
  /\ sm = NotLoaded

Next ==
  \/ \E t \in Tasks : InitializeCall(t)
  \/ \E t \in Tasks : \E arg \in ArgIds : GetPageCall(t, arg)
  \/ \E t \in Tasks : LaunchOk(t)
  \/ \E t \in Tasks : LaunchFail(t)
  \/ \E t \in Tasks : NewPageOk(t)
  \/ \E t \in Tasks : ConfigureOk(t)
  \/ \E t \in Tasks : CreatePageFail(t)
  \/ \E t \in Tasks : \E s \in KnownIds : ClosePageCall(t, s)
  \/ \E t \in Tasks : ClosePageOk(t)
  \/ \E t \in Tasks : ClosePageFail(t)
  \/ \E t \in Tasks : CloseCall(t)
  \/ \E t \in Tasks : ShutPageOk(t)
  \/ \E t \in Tasks : ShutPageFail(t)
  \/ \E t \in Tasks : BrowserCloseOk(t)
  \/ \E t \in Tasks : BrowserCloseFail(t)
  \/ \E p \in open : PageCloseEvent(p)
  \/ \E proc \in live : Disconnect(proc)

Spec == Init /\ [][Next]_vars

\* The manager after getPage() returned <<tab 1, uuid 1>> and the process
\* then disconnected: no process referenced, the session still registered.
\* Spec reaches this state (AfterDisconnectReached); calls are counted from
\* here on.
InitAfterDisconnect ==
  /\ browser = Null
  /\ pages = MapSet(EmptyMap, 0, Uuid(1), 1)
  /\ nOrd = 1
  /\ live = {}
  /\ nProc = 1
  /\ owner = <<1>>
  /\ open = {}
  /\ lsn = <<Uuid(1)>>
  /\ nUuid = 1
  /\ task = [t \in Tasks |->
               IF t = 1
                 THEN [IdleTask EXCEPT !.pc = "done", !.op = "getPage",
                                       !.ret = Ok(1, Uuid(1)), !.made = 1]
                 ELSE IdleTask]
  /\ closeRun = 0
  /\ nCalls = 0
  /\ srv = NotStarted
  /\ sm = NotLoaded

SpecAfterDisconnect == InitAfterDisconnect /\ [][Next]_vars

AfterDisconnectReached ==
  /\ browser = Null
  /\ pages = MapSet(EmptyMap, 0, Uuid(1), 1)
  /\ nOrd = 1 /\ live = {} /\ nProc = 1 /\ owner = <<1>> /\ open = {}
  /\ lsn = <<Uuid(1)>> /\ nUuid = 1 /\ closeRun = 0 /\ nCalls = 1
  /\ task = [t \in Tasks |->
               IF t = 1
                 THEN [IdleTask EXCEPT !.pc = "done", !.op = "getPage",
                                       !.ret = Ok(1, Uuid(1)), !.made = 1]
                 ELSE IdleTask]

\* The manager after getPage() returned <<tab 1, uuid 1>>, the process
\* running: the state Spec reaches with its first four steps
\* (WithSessionReached); calls are counted from here on.
InitWithSession ==
  /\ browser = 1
  /\ pages = MapSet(EmptyMap, 0, Uuid(1), 1)
  /\ nOrd = 1
  /\ live = {1}
  /\ nProc = 1
  /\ owner = <<1>>
  /\ open = {1}
  /\ lsn = <<Uuid(1)>>
  /\ nUuid = 1
  /\ task = [t \in Tasks |->
               IF t = 1
                 THEN [IdleTask EXCEPT !.pc = "done", !.op = "getPage",
                                       !.ret = Ok(1, Uuid(1)), !.made = 1]
                 ELSE IdleTask]
  /\ closeRun = 0
  /\ nCalls = 0
  /\ srv = NotStarted
  /\ sm = NotLoaded

SpecWithSession == InitWithSession /\ [][Next]_vars

WithSessionReached ==
  /\ browser = 1
  /\ pages = MapSet(EmptyMap, 0, Uuid(1), 1)
  /\ nOrd = 1 /\ live = {1} /\ nProc = 1 /\ owner = <<1>> /\ open = {1}
  /\ lsn = <<Uuid(1)>> /\ nUuid = 1 /\ closeRun = 0 /\ nCalls = 1
  /\ task = [t \in Tasks |->
               IF t = 1
                 THEN [IdleTask EXCEPT !.pc = "done", !.op = "getPage",
                                       !.ret = Ok(1, Uuid(1)), !.made = 1]
                 ELSE IdleTask]


\* ----------------------------------------------------------- tool handlers
\* The handlers of browse_webpage (src/unnamed/part_007, lines 58-133) and
\* take_screenshot (browserManager.ts, lines 261-309) await
\* browserManager.getPage(params.sessionId) and then work on the page.  From
\* then on they make no call of the manager, so the task's slot is free.
\* When an operation on the page fails (goto rejects or times out, no
\* response, an HTTP error status, waitForSelector times out, the element is
\* not found, title/evaluate/screenshot rejects) the catch block logs the
\* error and rethrows it.

\* Faulty variant of the catch block: the handler gives the session up.
AfterOperationFailed_Unregisters(m, s) == MapDelete(m, s)

\* part_007 lines 129-132, browserManager.ts lines 305-308, on the registry.
AfterOperationFailed(m, s) == m

\* The handler's outcome: what getPage gave it, and the failure.  It takes
\* the place of getPage's outcome in the task's record.
OperationFailed(r) == [kind |-> "OperationFailure", page |-> r.page, id |-> r.id]

\* A handler whose getPage returned a page fails on it.  Failures are
\* followed while a further call can still be made: after the last call of a
\* behaviour a failure would change the task's record alone.
ToolOperationFail(t) ==
  /\ nCalls < MaxCalls
  /\ task[t].pc = "done" /\ task[t].op = "getPage" /\ task[t].ret.kind = "ok"
  /\ pages' = AfterOperationFailed(pages, task[t].ret.id)
  /\ task' = [Moved(task, pages') EXCEPT ![t] =
       [IdleTask EXCEPT !.pc = "done", !.op = "tool",
                        !.ret = OperationFailed(task[t].ret)]]
  /\ closeRun' = 0
  /\ UNCHANGED <<srv, sm, browser, nOrd, live, nProc, owner, open, lsn, nUuid, nCalls>>

\* The server at work: it calls initialize() when it starts (part_008,
\* line 38) and its tool handlers call getPage and nothing else of the
\* manager; closePage has no caller in the server and close() is called when
\* the server stops (part_008, line 55).
NextTools ==
  \/ \E t \in Tasks : InitializeCall(t)
  \/ \E t \in Tasks : \E arg \in ArgIds : GetPageCall(t, arg)
  \/ \E t \in Tasks : LaunchOk(t)
  \/ \E t \in Tasks : LaunchFail(t)
  \/ \E t \in Tasks : NewPageOk(t)
  \/ \E t \in Tasks : ConfigureOk(t)
  \/ \E t \in Tasks : CreatePageFail(t)
  \/ \E t \in Tasks : ToolOperationFail(t)
  \/ \E p \in open : PageCloseEvent(p)
  \/ \E proc \in live : Disconnect(proc)

SpecTools == Init /\ [][NextTools]_vars

\* The server process from its start, the manager and the SessionManager
\* left aside.
SpecServer == Init /\ [][NextServer]_vars

\* The SessionManager from the loading of its module, the rest left aside.
SpecSessions == Init /\ [][NextSessions]_vars

\* ================================================================== claims
GetPageDone(t) == task[t].pc = "done" /\ task[t].op = "getPage"
ReturnedPage(t) == GetPageDone(t) /\ task[t].ret.kind = "ok"

\* Task t's getPage call returns its registered-or-new page in this step.
GetPageReturns(t) ==
  /\ InFlight(t) /\ task[t].op = "getPage"
  /\ task'[t].pc = "done" /\ task'[t].ret.kind = "ok"

\* The calls of t and u overlapped in time.
Overlapped(t, u) == t # u /\ u \in task[t].peers /\ t \in task[u].peers

\* C1 (as claimed): identity stability.  While a session id stays registered
\* (no closePage, no page-close event, no shutdown removed it) it maps to one
\* and the same page handle, the one every getPage(s) returns.
C1_IdentityStability ==
  [][\A s \in DOMAIN pages :
       s \in DOMAIN pages' => pages'[s].page = pages[s].page]_vars

\* C2 (as claimed): getPage(s) with an id s that is not registered returns a
\* freshly generated id, different from s.
C2_StaleIdNeverReused ==
  \A t \in Tasks :
    (ReturnedPage(t) /\ Truthy(task[t].arg) /\ task[t].made # NoPage)
      => task[t].ret.id # task[t].arg

\* C2 (amended): getPage(s) with a non-empty id s returns s itself as the
\* session id; when s was not registered from the call to the lookup, the
\* call opens a new tab and returns that tab under s, and the only errors it
\* raises are those of the launch and of the tab's creation.
C2_StaleIdReused ==
  \A t \in Tasks :
    (GetPageDone(t) /\ Truthy(task[t].arg)) =>
      /\ task[t].ret.kind \in {"ok", "LaunchFailure", "PageCreationFailure"}
      /\ task[t].ret.kind = "ok" => task[t].ret.id = task[t].arg
      /\ (task[t].ret.kind = "ok" /\ task[t].hit0 = NoPage /\ ~task[t].moved)
           => (task[t].made # NoPage /\ task[t].ret.page = task[t].made)

\* A getPage call with an unknown id has returned a new tab under that id,
\* and the registry holds it under that id.
C2_Witness ==
  \E t \in Tasks :
    /\ ReturnedPage(t) /\ task[t].arg = CallerId /\ task[t].hit0 = NoPage
    /\ task[t].ret = Ok(task[t].made, CallerId) /\ task[t].made # NoPage
    /\ MapGet(pages, CallerId) = task[t].made

\* C3: two overlapping getPage(undefined) calls return distinct session ids
\* and distinct pages, and each return adds one new registry entry without
\* touching any other entry, so that the two calls add two entries.
C3_DistinctResults ==
  \A t, u \in Tasks :
    (Overlapped(t, u) /\ ReturnedPage(t) /\ ReturnedPage(u)
       /\ ~Truthy(task[t].arg) /\ ~Truthy(task[u].arg))
      => /\ task[t].ret.id # task[u].ret.id
         /\ task[t].ret.page # task[u].ret.page

C3_ReturnAddsEntry ==
  \A t \in Tasks :
    (GetPageReturns(t) /\ ~Truthy(task[t].arg)) =>
      /\ task'[t].ret.id \notin DOMAIN pages
      /\ DOMAIN pages' = DOMAIN pages \cup {task'[t].ret.id}
      /\ pages'[task'[t].ret.id].page = task'[t].ret.page
      /\ \A s \in DOMAIN pages : pages'[s] = pages[s]

C3_ConcurrentFreshSessions == []C3_DistinctResults /\ [][C3_ReturnAddsEntry]_vars

\* Two overlapping getPage(undefined) calls have both returned and the
\* registry holds exactly their two entries.
C3_Witness ==
  \E t, u \in Tasks :
    /\ Overlapped(t, u) /\ ReturnedPage(t) /\ ReturnedPage(u)
    /\ ~Truthy(task[t].arg) /\ ~Truthy(task[u].arg)
    /\ DOMAIN pages = {task[t].ret.id, task[u].ret.id}
    /\ MapGet(pages, task[t].ret.id) = task[t].ret.page
    /\ MapGet(pages, task[u].ret.id) = task[u].ret.page
    /\ Cardinality(DOMAIN pages) = 2

\* C4: a getPage(s) call that starts while s is registered, and whose entry
\* nothing removes while the call waits for initialize(), opens no tab and
\* returns the registered page with s; so do two such calls that overlap.
C4_KnownIdNoDuplicateTab ==
  \A t \in Tasks :
    (task[t].op = "getPage" /\ task[t].hit0 # NoPage /\ ~task[t].moved) =>
      /\ task[t].pc \in {"launch", "done"}
      /\ task[t].made = NoPage
      /\ task[t].pc = "done" =>
           \/ task[t].ret = Ok(task[t].hit0, task[t].arg)
           \/ task[t].ret.kind = "LaunchFailure"

\* Two getPage(s) calls for a registered s overlapped, both waiting for
\* initialize() with no browser referenced, and both returned the one page.
C4_Witness ==
  \E t, u \in Tasks :
    /\ Overlapped(t, u) /\ ReturnedPage(t) /\ ReturnedPage(u)
    /\ task[t].arg = task[u].arg /\ Truthy(task[t].arg)
    /\ task[t].hit0 # NoPage /\ task[u].hit0 = task[t].hit0
    /\ task[t].ret = Ok(task[t].hit0, task[t].arg)
    /\ task[u].ret = task[t].ret
    /\ task[t].made = NoPage /\ task[u].made = NoPage

\* C5 (as claimed): at most one browser process runs per manager.
C5_AtMostOneProcess == Cardinality(live) <= 1

\* C6 (as claimed): with no call in flight, the registry's pages are exactly
\* the open tabs that getPage created, one entry per tab.
C6_RegistryMatchesOpenPages ==
  Quiescent =>
    /\ {pages[s].page : s \in DOMAIN pages} = open
    /\ Cardinality(DOMAIN pages) = Cardinality(open)

\* C7: every registered page carries a 'close' listener for the id it is
\* registered under, and when the tab of a registered page closes (its
\* 'close' event fires, the process still running) the id is unregistered
\* in that very step.
C7_ListenerInstalled ==
  \A s \in DOMAIN pages : lsn[pages[s].page] = s

C7_CloseEventUnregisters ==
  \A s \in DOMAIN pages :
    (pages[s].page \in open /\ pages[s].page \notin open'
       /\ owner[pages[s].page] \in live')
      => s \notin DOMAIN pages'

C7_PageCloseEventCleansUp ==
  []C7_ListenerInstalled /\ [][C7_CloseEventUnregisters]_vars

\* The only call ever made is a getPage; its tab closed on the browser's
\* side while the process runs, and its id is no longer registered.
C7_Witness ==
  /\ nCalls = 1 /\ ReturnedPage(1)
  /\ task[1].made \notin open /\ owner[task[1].made] \in live
  /\ lsn[task[1].made] = task[1].ret.id
  /\ task[1].ret.id \notin DOMAIN pages

\* C8 (as claimed): when closePage(s) returns for a registered s, s is not
\* registered, whether page.close() resolved or rejected.
C8_ClosePageAlwaysUnregisters ==
  [][\A t \in Tasks :
       (task[t].pc = "pageClose" /\ task'[t].pc = "done")
         => task[t].arg \notin DOMAIN pages']_vars

\* Task t starts a call of op in this step.
CallStarts(t, op) == Free(t) /\ nCalls' = nCalls + 1 /\ task'[t].op = op

\* Task t's getPage call returns a page in this step, be it the step of the
\* call itself (the id is registered and a browser referenced) or a later one.
GetPageYields(t) ==
  \/ GetPageReturns(t)
  \/ CallStarts(t, "getPage") /\ task'[t].pc = "done" /\ task'[t].ret.kind = "ok"

\* C9: closePage never lets an error through, and closePage on an id that is
\* not registered returns at once, leaving the registry, the browser
\* reference and the browser's tabs as they are.
C9_NoRaise ==
  \A t \in Tasks :
    (task[t].op = "closePage" /\ task[t].pc = "done") => task[t].ret = Void

C9_UnknownIdNoOp ==
  \A t \in Tasks :
    (CallStarts(t, "closePage") /\ task'[t].arg \notin DOMAIN pages) =>
      /\ task'[t].pc = "done" /\ task'[t].ret = Void
      /\ pages' = pages /\ browser' = browser /\ open' = open /\ live' = live

C9_ClosePageNeverRaises == []C9_NoRaise /\ [][C9_UnknownIdNoOp]_vars

\* closePage(s) has returned normally though page.close() rejected: the page
\* is still registered under s.
C9_Witness ==
  \E t \in Tasks :
    /\ task[t].op = "closePage" /\ task[t].pc = "done" /\ task[t].ret = Void
    /\ task[t].arg \in DOMAIN pages

\* C10 (as claimed): after two close() calls in succession the registry is
\* empty and no process is referenced, and neither call raised.
C10_ShutdownTwiceLeavesNothing ==
  closeRun = 2 =>
    /\ DOMAIN pages = {}
    /\ browser = Null
    /\ \A t \in Tasks :
         (task[t].op = "close" /\ task[t].pc = "done") => task[t].ret = Void


\* C11: when the launch fails, the awaiting initialize or getPage raises the
\* launch failure in that step, which leaves the browser reference (null
\* when no process was ever launched), the registry and the processes as
\* they are; a getPage that raised it opened no tab; and a later initialize
\* or getPage that finds no browser awaits the launch again.
C11_NoTabOnLaunchFailure ==
  \A t \in Tasks :
    (task[t].pc = "done" /\ task[t].ret.kind = "LaunchFailure") =>
      /\ task[t].op \in {"initialize", "getPage"}
      /\ task[t].made = NoPage

C11_FailureStep ==
  \A t \in Tasks :
    (task[t].pc = "launch" /\ task'[t].pc # "launch" /\ nProc' = nProc) =>
      /\ task'[t].pc = "done" /\ task'[t].ret.kind = "LaunchFailure"
      /\ browser' = browser /\ pages' = pages /\ live' = live /\ open' = open
      /\ nProc = 0 => browser' = Null

C11_LaunchAgain ==
  \A t \in Tasks :
    ( /\ \E u \in Tasks : task[u].pc = "done" /\ task[u].ret.kind = "LaunchFailure"
      /\ browser = Null
      /\ CallStarts(t, "initialize") \/ CallStarts(t, "getPage") )
      => task'[t].pc = "launch"

C11_LaunchFailure ==
  []C11_NoTabOnLaunchFailure /\ [][C11_FailureStep /\ C11_LaunchAgain]_vars

\* The only call made is a getPage whose launch failed: no process, no
\* browser reference, nothing registered.
C11_Witness ==
  /\ nCalls = 1 /\ task[1].op = "getPage" /\ task[1].pc = "done"
  /\ task[1].ret.kind = "LaunchFailure"
  /\ browser = Null /\ pages = EmptyMap /\ nProc = 0 /\ open = {}

\* C12: initialize called while a browser is referenced returns at once
\* without an error: it never reaches the launch of line 86 nor the listener
\* registration of line 90, and the reference, the registry, the processes
\* and the tabs are unchanged.
C12_InitializeNoOp ==
  [][\A t \in Tasks :
       (CallStarts(t, "initialize") /\ browser # Null) =>
         /\ task'[t].pc = "done" /\ task'[t].ret = Void
         /\ browser' = browser /\ pages' = pages /\ live' = live
         /\ nProc' = nProc /\ open' = open /\ lsn' = lsn]_vars

\* Task 1's getPage launched the one process and is waiting for its tab;
\* task 2's initialize, called meanwhile, has returned without launching.
C12_Witness ==
  /\ nCalls = 2 /\ nProc = 1 /\ browser = 1 /\ live = {1}
  /\ task[1].op = "getPage" /\ task[1].pc = "newPage" /\ task[1].b = 1
  /\ task[2].op = "initialize" /\ task[2].pc = "done" /\ task[2].ret = Void

\* C13: getPage never raises "not initialized".  Called with no browser
\* referenced, it awaits the launch before anything else; when its launch
\* resolves it goes on with the new process, asking it for a tab or returning
\* the page registered under its id; its only errors are those of the launch
\* and of the tab's creation, and the page it returns is registered under
\* the id it returns.
C13_Outcomes ==
  \A t \in Tasks :
    /\ task[t].ret.kind # "NotInitialized"
    /\ GetPageDone(t) =>
         task[t].ret.kind \in {"ok", "LaunchFailure", "PageCreationFailure"}

C13_LaunchFirst ==
  \A t \in Tasks :
    (CallStarts(t, "getPage") /\ browser = Null) =>
      /\ task'[t].pc = "launch"
      /\ pages' = pages /\ open' = open /\ browser' = browser

C13_ThenPage ==
  \A t \in Tasks :
    ( /\ task[t].op = "getPage" /\ task[t].pc = "launch"
      /\ task'[t].pc # "launch" /\ nProc' = nProc + 1 ) =>
      /\ browser' = nProc' /\ browser' \in live'
      /\ \/ task'[t].pc = "newPage" /\ task'[t].b = browser'
         \/ task'[t].pc = "done" /\ task'[t].ret.kind = "ok"

C13_ReturnsRegistered ==
  \A t \in Tasks :
    GetPageYields(t) => MapGet(pages', task'[t].ret.id) = task'[t].ret.page

C13_LazyInitialisation ==
  []C13_Outcomes /\ [][C13_LaunchFirst /\ C13_ThenPage /\ C13_ReturnsRegistered]_vars

\* The first call ever made is a getPage: it launched the one process, opened
\* a tab and returned it, registered under the returned id.
C13_Witness ==
  /\ nCalls = 1 /\ nProc = 1 /\ ReturnedPage(1)
  /\ task[1].made # NoPage /\ task[1].ret.page = task[1].made
  /\ owner[task[1].made] = 1
  /\ MapGet(pages, task[1].ret.id) = task[1].ret.page

\* C14: when newPage or the configuration of the new tab fails, getPage
\* raises the page-creation failure in that step and the registry stays as
\* it is; no step of a getPage call other than its successful registration
\* changes the registry, so a call that fails leaves it as it found it (when
\* it was the only call ever made: empty).
C14_OnlyCallFailed ==
  (nCalls = 1 /\ task[1].ret.kind = "PageCreationFailure") => pages = EmptyMap

C14_FailureStep ==
  \A t \in Tasks :
    ( /\ task[t].pc \in {"newPage", "configure"}
      /\ task'[t].pc = "done" /\ task'[t].ret.kind # "ok" ) =>
      /\ task'[t].ret.kind = "PageCreationFailure"
      /\ pages' = pages /\ nOrd' = nOrd /\ lsn' = lsn

C14_OnlySuccessRegisters ==
  \A t \in Tasks :
    ( /\ task'[t].op = "getPage"
      /\ CallStarts(t, "getPage") \/ task'[t].pc # task[t].pc
      /\ ~(task[t].pc = "configure" /\ task'[t].ret.kind = "ok") )
      => pages' = pages

C14_PageCreationFailure ==
  []C14_OnlyCallFailed /\ [][C14_FailureStep /\ C14_OnlySuccessRegisters]_vars

\* The only call made is a getPage on which the tab was opened and its
\* configuration failed: the process runs, nothing is registered.
C14_Witness ==
  /\ nCalls = 1 /\ task[1].op = "getPage" /\ task[1].pc = "done"
  /\ task[1].ret.kind = "PageCreationFailure"
  /\ task[1].made # NoPage /\ browser \in live /\ pages = EmptyMap

\* C15 (as claimed): shutdown is total.  When close() returns, the registry
\* is empty, no browser is referenced, and no error reached the caller.
C15_ShutdownTotal ==
  [][\A t \in Tasks :
       ( /\ task'[t].op = "close" /\ task'[t].pc = "done"
         /\ CallStarts(t, "close") \/ (InFlight(t) /\ task[t].op = "close") )
         => /\ DOMAIN pages' = {}
            /\ browser' = Null
            /\ task'[t].ret = Void]_vars

\* C16: the step in which a process ends (its 'disconnected' event fires)
\* clears the browser reference and leaves the registry as it is, so that a
\* referenced browser is always a running one; a getPage called afterwards
\* with no browser referenced awaits a new launch first, and whenever a
\* getPage asks for a new tab it asks the running process then referenced.
C16_ReferenceRuns == browser # Null => browser \in live

C16_DisconnectStep ==
  (live' # live /\ live' \subseteq live) =>
    /\ browser' = Null
    /\ pages' = pages /\ nOrd' = nOrd

C16_RelaunchFirst ==
  \A t \in Tasks :
    (CallStarts(t, "getPage") /\ browser = Null /\ nProc > 0) =>
      /\ task'[t].pc = "launch"
      /\ owner' = owner /\ open' = open

C16_AsksRunningProcess ==
  \A t \in Tasks :
    (task'[t].op = "getPage" /\ task'[t].pc = "newPage" /\ task[t].pc # "newPage")
      => (task'[t].b = browser' /\ task'[t].b \in live')

C16_DisconnectReentry ==
  /\ []C16_ReferenceRuns
  /\ [][C16_DisconnectStep /\ C16_RelaunchFirst /\ C16_AsksRunningProcess]_vars

\* A first getPage registered a session; its process ended; the second call,
\* a getPage, has launched process 2 and asked it for a tab, the session of
\* the first still registered.
C16_Witness ==
  /\ nCalls = 2 /\ nProc = 2 /\ live = {2} /\ browser = 2
  /\ task[2].pc = "idle"
  /\ task[1].op = "getPage" /\ task[1].pc = "newPage" /\ task[1].b = 2
  /\ \E s \in DOMAIN pages : owner[pages[s].page] = 1

\* C17 (as claimed): every page getPage returns belongs to a process that
\* is running when it is returned, never to one that has disconnected.
C17_ReturnedPageRuns ==
  [][\A t \in Tasks :
       GetPageYields(t) => owner[task'[t].ret.page] \in live']_vars

\* C18 (as claimed): once closePage(s) has called close() on the page of s,
\* no getPage returns that page, not even one that runs while closePage is
\* suspended.
C18_ClosingPageNotReturned ==
  [][\A t \in Tasks :
       GetPageYields(t) =>
         ~\E u \in Tasks \ {t} :
            /\ task[u].op = "closePage" /\ task[u].pc = "pageClose"
            /\ task[u].page = task'[t].ret.page]_vars

\* C19: the step in which an operation on the page fails inside a tool
\* handler leaves the registry, the browser reference, the tabs and the
\* processes as they are; and a getPage called with the id of such a
\* handler, the id still mapped to the handler's page, returns that very
\* page under that id (after the launch, when no browser is referenced).
C19_FailureStep ==
  \A t \in Tasks :
    (task[t].ret.kind = "ok" /\ task'[t].ret.kind = "OperationFailure") =>
      /\ pages' = pages /\ nOrd' = nOrd /\ lsn' = lsn
      /\ browser' = browser /\ open' = open /\ live' = live
      /\ task'[t].ret.page = task[t].ret.page /\ task'[t].ret.id = task[t].ret.id

C19_SamePageAfterwards ==
  \A t, u \in Tasks :
    ( /\ task[u].ret.kind = "OperationFailure"
      /\ MapGet(pages, task[u].ret.id) = task[u].ret.page
      /\ CallStarts(t, "getPage") /\ task'[t].arg = task[u].ret.id ) =>
      \/ browser # Null /\ task'[t].pc = "done"
           /\ task'[t].ret = Ok(task[u].ret.page, task[u].ret.id)
      \/ browser = Null /\ task'[t].pc = "launch"
           /\ task'[t].hit0 = task[u].ret.page

C19_OperationFailureKeepsSession ==
  [][C19_FailureStep /\ C19_SamePageAfterwards]_vars

\* A handler's getPage returned a tab of the running browser, the handler's
\* operation on it then failed: the tab is open and registered under the
\* same id.
C19_Witness ==
  \E t \in Tasks :
    /\ task[t].op = "tool" /\ task[t].pc = "done"
    /\ task[t].ret.kind = "OperationFailure"
    /\ task[t].ret.page \in open /\ owner[task[t].ret.page] = browser
    /\ MapGet(pages, task[t].ret.id) = task[t].ret.page

\* C20 (as claimed): a registered session is removed or remapped only by a
\* closePage for its id, by the 'close' event of its page, or by a step of
\* close().
C20_OnlyThreeEventsUnregister ==
  [][\A s \in DOMAIN pages :
       (s \notin DOMAIN pages' \/ pages'[s].page # pages[s].page) =>
         \/ \E t \in Tasks :
              /\ task[t].op = "closePage" /\ task[t].arg = s
              /\ task[t].pc = "pageClose" /\ task'[t].pc = "done"
         \/ pages[s].page \in open /\ pages[s].page \notin open'
         \/ \E t \in Tasks : task'[t].op = "close" /\ task'[t] # task[t]]_vars

\* C21 (as claimed): getPage has no suspension point between the lookup
\* that decides to create a page and the insertion of that page, so that
\* while a getPage call is between the two no step changes the registry.
C21_NoStepBetweenLookupAndInsert ==
  [][\A t \in Tasks :
       ( /\ task[t].op = "getPage"
         /\ task[t].pc \in {"newPage", "configure"}
         /\ task'[t].pc \in {"newPage", "configure"} )
         => pages' = pages]_vars

\* C22: a getPage call moves forward only: from the launch to the tab's
\* creation or to its end, from the creation to the configuration or to its
\* end, from the configuration to its end.  A launch that fails ends the
\* call with the launch failure, a creation or configuration that fails
\* ends it with the page-creation failure, and a call that ends normally
\* after creating a tab returns that tab, registered.
C22_ForwardOnly ==
  \A t \in Tasks :
    (InFlight(t) /\ task[t].op = "getPage" /\ task'[t].pc # task[t].pc) =>
      /\ task[t].pc = "launch" => task'[t].pc \in {"newPage", "done"}
      /\ task[t].pc = "newPage" => task'[t].pc \in {"configure", "done"}
      /\ task[t].pc = "configure" => task'[t].pc = "done"
      /\ task[t].made # NoPage => task'[t].made = task[t].made
      /\ nProc' \in {nProc, nProc + 1}
      /\ Len(owner') \in {Len(owner), Len(owner) + 1}

C22_FailurePropagates ==
  \A t \in Tasks :
    (InFlight(t) /\ task[t].op = "getPage" /\ task'[t].pc = "done") =>
      /\ (task[t].pc = "launch" /\ nProc' = nProc)
           => task'[t].ret.kind = "LaunchFailure"
      /\ task[t].pc = "newPage" => task'[t].ret.kind = "PageCreationFailure"
      /\ task[t].pc = "configure" =>
           \/ task'[t].ret.kind = "PageCreationFailure" /\ pages' = pages
           \/ /\ task'[t].ret = Ok(task[t].page, task[t].id)
              /\ MapGet(pages', task[t].id) = task[t].page

C22_NoRetries == [][C22_ForwardOnly /\ C22_FailurePropagates]_vars

\* The only call made is a getPage whose newPage() was rejected: one process
\* was launched, no tab exists, and the call ended with the failure.
C22_Witness ==
  /\ nCalls = 1 /\ task[1].op = "getPage" /\ task[1].pc = "done"
  /\ task[1].ret.kind = "PageCreationFailure"
  /\ task[1].made = NoPage /\ nProc = 1 /\ Len(owner) = 0

\* The ids whose entry (its presence, or the page it maps to) this step
\* changes.
Changed ==
  {k \in DOMAIN pages \cup DOMAIN pages' :
     \/ (k \in DOMAIN pages) # (k \in DOMAIN pages')
     \/ k \in DOMAIN pages /\ k \in DOMAIN pages' /\ pages'[k].page # pages[k].page}

\* A step of a close() call.
CloseSteps == \E t \in Tasks : task'[t].op = "close" /\ task'[t] # task[t]

\* C23: outside close(), a step changes the entry of at most one id: the
\* id of the getPage call that registers its page, the id closePage was
\* called with, or the id under which the page that closes was registered.
\* The entries of all other ids keep their presence and their page.
C23_OneSessionPerStep ==
  ~CloseSteps =>
    \/ Changed = {}
    \/ \E t \in Tasks :
         /\ task[t].op = "getPage" /\ task[t].pc = "configure"
         /\ task'[t].pc = "done" /\ Changed \subseteq {task[t].id}
    \/ \E t \in Tasks :
         /\ task[t].op = "closePage" /\ task[t].pc = "pageClose"
         /\ task'[t].pc = "done" /\ Changed \subseteq {task[t].arg}
    \/ \E p \in open \ open' :
         /\ owner[p] \in live'
         /\ \A u \in Tasks : task'[u].pc = task[u].pc
         /\ Changed \subseteq {s \in DOMAIN pages : pages[s].page = p} \cup
                              {s \in {lsn[p]} : \A k \in DOMAIN pages :
                                                   pages[k].page # p}

C25_RemovalPrecision ==
  [][~CloseSteps =>
       \A s \in DOMAIN pages :
         s \notin DOMAIN pages' => pages[s].page \notin open']_vars

\* C26 (as claimed): the end of a process other than the referenced one
\* (outside close()) leaves the reference to the running process as it is.
C26_DisconnectAttribution ==
  [][~CloseSteps =>
       \A proc \in live \ live' :
         (browser # Null /\ browser # proc) => browser' = browser]_vars

\* C27 (as claimed): when a close() call has run while a getPage call was
\* between creating its tab and registering it, then once both have ended
\* nothing is registered while no browser is referenced.
C27_ShutdownVersusCreation ==
  ( /\ nCalls = 2 /\ Quiescent
    /\ task[1].op = "getPage" /\ task[1].made # NoPage
    /\ task[2].op = "close"
    /\ browser = Null )
    => DOMAIN pages = {}

\* C24 (as claimed): when the process ends on a SIGINT or SIGTERM received
\* after browserManager.initialize() resolved, a close() call has returned
\* before.
C24_SignalRunsShutdown ==
  [][( /\ srv.pc \in {"start", "serving"} /\ srv'.pc = "exited"
       /\ Len(srv'.sigs) > 0 /\ srv'.exit \in {"0", "signal"} )
       => srv'.closed > 0]_vars

\* A step of the SessionManager made by the method op.
SmStep(op) == sm' # sm /\ sm'.ret.op = op

\* The fields of a session the code holds.
Fields(session) ==
  <<session.createdAt, session.lastActivity, session.data>>

\* C28: a run of cleanupExpiredSessions at time now removes exactly the
\* sessions with lastActivity + expirationTimeMs < now and leaves every
\* other session as it was; in particular no session within its expiration
\* window is removed.
C28_CleanupExact ==
  [][SmStep("cleanup") =>
       /\ DOMAIN sm'.sessions =
            {i \in DOMAIN sm.sessions :
               ~(sm.sessions[i].lastActivity + sm.exp < sm.clock)}
       /\ \A i \in DOMAIN sm'.sessions : sm'.sessions[i] = sm.sessions[i]
       /\ sm'.exp = sm.exp]_vars

\* A cleanup has just removed a session and kept another one that is at the
\* very end of its window.
C28_Witness ==
  /\ sm.ret.op = "cleanup" /\ sm.ret.val >= 1
  /\ \E i \in DOMAIN sm.sessions :
       sm.sessions[i].lastActivity + sm.exp = sm.clock

\* C29: getSession and updateSession on an existing session set its
\* lastActivity to the current time, so cleanup removes a session only when
\* more than expirationTimeMs has passed since a caller last created, got or
\* updated it; hasSession and getAllSessions change no session; getSession
\* and updateSession on an unknown id return undefined and create nothing.
C29_KeepAlive ==
  [][/\ \A id \in SessionIds :
          (SmStep("getSession") \/ SmStep("updateSession")) /\ sm'.ret.id = id =>
            IF id \in DOMAIN sm.sessions
              THEN /\ sm'.ret.val = "session"
                   /\ id \in DOMAIN sm'.sessions
                   /\ sm'.sessions[id].lastActivity = sm.clock
              ELSE /\ sm'.ret.val = "undefined"
                   /\ sm'.sessions = sm.sessions
     /\ SmStep("cleanup") =>
          \A i \in DOMAIN sm.sessions \ DOMAIN sm'.sessions :
            sm.clock - sm.sessions[i].seen > sm.exp
     /\ SmStep("hasSession") \/ SmStep("getAllSessions") =>
          sm'.sessions = sm.sessions]_vars

\* A cleanup has just kept a session that is older than the expiration time
\* and was accessed since its creation.
C29_Witness ==
  /\ sm.ret.op = "cleanup" /\ sm.ret.val = 0
  /\ \E i \in DOMAIN sm.sessions :
       /\ sm.sessions[i].createdAt + sm.exp < sm.clock
       /\ sm.sessions[i].lastActivity > sm.sessions[i].createdAt

\* C30: every call of getInstance returns the same instance: at most one
\* instance is ever constructed and one cleanup timer started, and a call of
\* getInstance after the first leaves the session map as it is.
C30_Singleton ==
  /\ [](/\ sm.made <= 1 /\ sm.timers = sm.made
        /\ sm.instance # 0 => sm.instance = 1
        /\ sm.ret.op = "getInstance" => sm.ret.val = 1)
  /\ [][SmStep("getInstance") /\ sm.instance # 0 =>
          /\ sm'.instance = sm.instance
          /\ sm'.sessions = sm.sessions
          /\ sm'.exp = sm.exp /\ sm'.due = sm.due]_vars

\* getInstance has been called again after a session was created through
\* the instance an earlier call returned.
C30_Witness ==
  /\ sm.ret.op = "getInstance" /\ sm.ret.val = 1
  /\ sm.made = 1 /\ sm.timers = 1
  /\ DOMAIN sm.sessions # {}

=============================================================================
